---- MODULE Spec2Model ----
(***************************************************************************)
(* The user-management web service of app.py: the usuarios table and the   *)
(* five CRUD handlers. A handler is split at its database round trips, so  *)
(* that requests handled on different threads interleave between one       *)
(* handler's query and its commit. The session is the SQLAlchemy unit of   *)
(* work configured at line 33 (autoflush=False, autocommit=False): queries *)
(* read committed rows, assignments stay on the session's object, and      *)
(* db.commit() flushes them and commits in one step.                       *)
(***************************************************************************)
EXTENDS Integers, Sequences, FiniteSets, TLC

\* ---------------------------------------------------------------- bounds
\* Ids the storage may hand out: 1..MaxId.
MaxId == 2

Ids == 1..MaxId
\* Values datetime.utcnow() may take when a row is inserted.
Times == {0, 1}
Names == {"a", "b"}
Emails == {"x", "y"}
Passwords == {"p", "q"}
\* The request-handling threads.
Req == {"r1", "r2"}

\* Python's None, for an absent field and an absent object.
None == "None"

\* ------------------------------------------------------------- the schema
\* A row of usuarios without its primary key, which is the key of `table`.
Usuario == [nombre : Names, correo : Emails, password : Passwords, fecha_reg : Times]

\* A valid POST body.
UsuarioIn == [nombre : Names, correo : Emails, password : Passwords]

\* A valid PUT body: every field optional.
UsuarioUpdate ==
  [nombre : Names \cup {None}, correo : Emails \cup {None}, password : Passwords \cup {None}]

\* The response model: the row and its id, without the password.
UsuarioOut(id, row) ==
  [id_usuario |-> id, nombre |-> row.nombre, correo |-> row.correo, fecha_reg |-> row.fecha_reg]

VARIABLES
  table,     \* the usuarios table: id_usuario -> row, committed state
  req,       \* per thread: the request it is handling and the handler's locals
  nOpen,     \* number of sessions opened and not yet closed
  out,       \* the response sent by the step just taken, NoOut if it sent none
  gone       \* history: the ids deleted and not assigned again since

vars == <<table, req, nOpen, out, gone>>

Idle == [op |-> "none", pc |-> "idle", id |-> 0, data |-> None, u |-> None]
NoOut == [op |-> "none", status |-> 0, id |-> 0, data |-> None, body |-> None]

\* What the client receives, with the request it answers: the path's id (or
\* the new row's), the request body, the status and the response body.
Response(op, status, id, data, body) ==
  [op |-> op, status |-> status, id |-> id, data |-> data, body |-> body]

\* ------------------------------------------------------------ the storage
\* Ids of the rows whose correo is e.
ByCorreo(t, e) == {i \in DOMAIN t : t[i].correo = e}

\* Ids the storage can assign to a new row: positive and held by no row
\* (SQLite: the largest rowid + 1; PostgreSQL: the sequence's next value).
FreshIds_Any(t) == Ids
FreshIds(t) == Ids \ DOMAIN t

\* The unique constraint on usuarios.correo: writing e into row id is
\* rejected when another row holds e.
UniqueViolation_Dropped(t, id, e) == FALSE
UniqueViolation(t, id, e) == ByCorreo(t, e) \ {id} # {}

\* SessionLocal()
Open(n) == n + 1

\* try ... finally: db.close() on every exit path, whatever the outcome.
Finally_OnReturnOnly(n, status) == IF status \in {200, 201, 204} THEN n - 1 ELSE n
Finally(n, status) == n - 1

\* No handler has an except clause: an exception raised by db.commit() or
\* db.refresh() leaves through finally and is answered with status 500.
Unhandled_As409(error) == 409
Unhandled(error) == 500

\* A session closed without commit discards what was assigned on its
\* objects: the table keeps its committed rows.
Rollback_Flushed(t, id, pending) == IF id \in DOMAIN t THEN [t EXCEPT ![id] = pending] ELSE t
Rollback(t, id, pending) == t

Insert(t, id, row) == [i \in DOMAIN t \cup {id} |-> IF i = id THEN row ELSE t[i]]

Delete_Kept(t, id) == t
Delete(t, id) == [i \in DOMAIN t \ {id} |-> t[i]]

\* order_by(Usuario.id_usuario.asc()): the ids of S as a sequence, smallest
\* first.
OrderByIdDesc(S) ==
  CHOOSE s \in [1..Cardinality(S) -> S] : \A i, j \in 1..Cardinality(S) : i < j => s[i] > s[j]
OrderByIdAsc(S) ==
  CHOOSE s \in [1..Cardinality(S) -> S] : \A i, j \in 1..Cardinality(S) : i < j => s[i] < s[j]

\* ------------------------------------------------------------------- Init
Init ==
  /\ table = <<>>
  /\ req = [r \in Req |-> Idle]
  /\ nOpen = 0
  /\ out = NoOut
  /\ gone = {}

\* ---------------------------------------------------------- crear_usuario
\* Line 83: some row has the email.
CorreoExiste_Never(t, e) == FALSE
CorreoExiste(t, e) == ByCorreo(t, e) # {}

\* Lines 81-84: open the session, look the email up, 409 if some row has it.
crear_usuario_check(r, data) ==
  /\ req[r].pc = "idle"
  /\ IF CorreoExiste(table, data.correo)
     THEN /\ out' = Response("crear", 409, 0, data, None)
          /\ nOpen' = Finally(Open(nOpen), 409)
          /\ req' = req
     ELSE /\ out' = NoOut
          /\ nOpen' = Open(nOpen)
          /\ req' = [req EXCEPT ![r] = [op |-> "crear", pc |-> "commit", id |-> 0,
                                        data |-> data, u |-> None]]
  /\ UNCHANGED <<table, gone>>

\* Lines 85-91: INSERT and COMMIT, then refresh and return the row. The
\* unique constraint rejects a correo that a row committed since the check
\* holds (no row has the new row's id, written 0 here); the IntegrityError
\* leaves the handler through finally. fecha_reg is the column's default,
\* utcnow() at the INSERT.
crear_usuario_commit(r, now, newid) ==
  /\ req[r].pc = "commit" /\ req[r].op = "crear"
  /\ LET data == req[r].data
         row == [nombre |-> data.nombre, correo |-> data.correo,
                 password |-> data.password, fecha_reg |-> now]
     IN IF UniqueViolation(table, 0, data.correo)
        THEN /\ table' = table
             /\ out' = Response("crear", Unhandled("IntegrityError"), 0, data, "IntegrityError")
             /\ nOpen' = Finally(nOpen, 500)
             /\ gone' = gone
        ELSE /\ newid \in FreshIds(table)
             /\ table' = Insert(table, newid, row)
             /\ out' = Response("crear", 201, newid, data, UsuarioOut(newid, row))
             /\ nOpen' = Finally(nOpen, 201)
             /\ gone' = gone \ {newid}
  /\ req' = [req EXCEPT ![r] = Idle]

\* -------------------------------------------------------- listar_usuarios
\* Lines 95-99.
listar_usuarios(r) ==
  /\ req[r].pc = "idle"
  /\ LET ids == OrderByIdAsc(DOMAIN table)
     IN out' = Response("listar", 200, 0, None,
                        [k \in 1..Len(ids) |-> UsuarioOut(ids[k], table[ids[k]])])
  /\ nOpen' = Finally(Open(nOpen), 200)
  /\ UNCHANGED <<table, req, gone>>

\* -------------------------------------------------------- obtener_usuario
\* Lines 103-110.
obtener_usuario(r, id) ==
  /\ req[r].pc = "idle"
  /\ IF id \notin DOMAIN table
     THEN /\ out' = Response("obtener", 404, id, None, None)
          /\ nOpen' = Finally(Open(nOpen), 404)
     ELSE /\ out' = Response("obtener", 200, id, None, UsuarioOut(id, table[id]))
          /\ nOpen' = Finally(Open(nOpen), 200)
  /\ UNCHANGED <<table, req, gone>>

\* ----------------------------------------------------- actualizar_usuario
\* The attributes of u after lines 119-126 assigned the present fields.
Assign(u, data) ==
  [nombre    |-> IF data.nombre # None THEN data.nombre ELSE u.nombre,
   correo    |-> IF data.correo # None THEN data.correo ELSE u.correo,
   password  |-> IF data.password # None THEN data.password ELSE u.password,
   fecha_reg |-> u.fecha_reg]

\* The columns db.commit() writes: the flush compares each assigned
\* attribute with the value the object was loaded with and emits the UPDATE
\* for those that differ, none when all are equal.
Dirty(loaded, pending) ==
  {c \in {"nombre", "correo", "password"} : pending[c] # loaded[c]}

\* UPDATE usuarios SET <cols> WHERE id_usuario = id
Update(t, id, pending, cols) ==
  [t EXCEPT ![id] = [c \in DOMAIN t[id] |-> IF c \in cols THEN pending[c] ELSE t[id][c]]]

\* Line 122: a row other than id has the email.
OtroConCorreo_AnyRow(t, id, e) == ByCorreo(t, e) # {}
OtroConCorreo(t, id, e) == ByCorreo(t, e) \ {id} # {}

\* Lines 114-118: open the session and load the row, 404 if there is none.
\* Without a correo in the body the handler runs no second query, and its
\* next round trip is the commit.
actualizar_usuario_get(r, id, data) ==
  /\ req[r].pc = "idle"
  /\ IF id \notin DOMAIN table
     THEN /\ out' = Response("actualizar", 404, id, data, None)
          /\ nOpen' = Finally(Open(nOpen), 404)
          /\ req' = req
     ELSE /\ out' = NoOut
          /\ nOpen' = Open(nOpen)
          /\ req' = [req EXCEPT ![r] =
                      [op |-> "actualizar", id |-> id, data |-> data, u |-> table[id],
                       pc |-> IF data.correo = None THEN "commit" ELSE "check"]]
  /\ UNCHANGED <<table, gone>>

\* Lines 121-123, reached with a correo in the body: look it up among the
\* other rows, 409 if one has it. The nombre assigned at line 120 is pending
\* on the session's object and goes with the session.
actualizar_usuario_check(r) ==
  /\ req[r].pc = "check" /\ req[r].op = "actualizar"
  /\ LET id == req[r].id
         data == req[r].data
         pending == [req[r].u EXCEPT !.nombre = IF data.nombre # None THEN data.nombre ELSE @]
     IN IF OtroConCorreo(table, id, data.correo)
        THEN /\ out' = Response("actualizar", 409, id, data, None)
             /\ nOpen' = Finally(nOpen, 409)
             /\ req' = [req EXCEPT ![r] = Idle]
             /\ table' = Rollback(table, id, pending)
        ELSE /\ out' = NoOut
             /\ nOpen' = nOpen
             /\ req' = [req EXCEPT ![r].pc = "commit"]
             /\ table' = table
  /\ gone' = gone

\* Lines 124-131: flush, COMMIT and refresh. The UPDATE fails when the row
\* was deleted since it was loaded (StaleDataError) or when another row
\* committed the same correo since the check (IntegrityError); with nothing
\* to flush, the refresh fails when the row is gone (InvalidRequestError).
actualizar_usuario_commit(r) ==
  /\ req[r].pc = "commit" /\ req[r].op = "actualizar"
  /\ LET id == req[r].id
         data == req[r].data
         loaded == req[r].u
         pending == Assign(loaded, data)
         cols == Dirty(loaded, pending)
         error == IF id \notin DOMAIN table
                    THEN IF cols = {} THEN "InvalidRequestError" ELSE "StaleDataError"
                  ELSE IF "correo" \in cols /\ UniqueViolation(table, id, pending.correo)
                    THEN "IntegrityError"
                  ELSE None
     IN IF error # None
        THEN /\ table' = table
             /\ out' = Response("actualizar", Unhandled(error), id, data, error)
             /\ nOpen' = Finally(nOpen, 500)
        ELSE /\ table' = Update(table, id, pending, cols)
             /\ out' = Response("actualizar", 200, id, data, UsuarioOut(id, table'[id]))
             /\ nOpen' = Finally(nOpen, 200)
  /\ req' = [req EXCEPT ![r] = Idle]
  /\ gone' = gone

\* ------------------------------------------------------- eliminar_usuario
\* Lines 135-139: open the session and load the row, 404 if there is none.
eliminar_usuario_get(r, id) ==
  /\ req[r].pc = "idle"
  /\ IF id \notin DOMAIN table
     THEN /\ out' = Response("eliminar", 404, id, None, None)
          /\ nOpen' = Finally(Open(nOpen), 404)
          /\ req' = req
     ELSE /\ out' = NoOut
          /\ nOpen' = Open(nOpen)
          /\ req' = [req EXCEPT ![r] = [op |-> "eliminar", pc |-> "commit", id |-> id,
                                        data |-> None, u |-> None]]
  /\ UNCHANGED <<table, gone>>

\* Lines 140-144: DELETE and COMMIT. When the row was deleted since it was
\* loaded the DELETE matches no row: the unit of work warns about it or
\* raises StaleDataError, depending on the library's version.
eliminar_usuario_commit(r, raises) ==
  /\ req[r].pc = "commit" /\ req[r].op = "eliminar"
  /\ LET id == req[r].id
     IN IF id \in DOMAIN table
        THEN /\ table' = Delete(table, id)
             /\ out' = Response("eliminar", 204, id, None, None)
             /\ nOpen' = Finally(nOpen, 204)
             /\ gone' = gone \cup {id}
        ELSE /\ table' = table
             /\ gone' = gone
             /\ IF raises
                THEN /\ out' = Response("eliminar", Unhandled("StaleDataError"), id, None,
                                        "StaleDataError")
                     /\ nOpen' = Finally(nOpen, 500)
                ELSE /\ out' = Response("eliminar", 204, id, None, None)
                     /\ nOpen' = Finally(nOpen, 204)
  /\ req' = [req EXCEPT ![r] = Idle]

\* --------------------------------------------------------- specifications
\* Request bodies of the concurrent specification: POST bodies with one
\* nombre and one password, one time, and PUT bodies that carry a nombre, a
\* correo or nothing.
SmallIn == {d \in UsuarioIn : d.nombre = "a" /\ d.password = "p"}
SmallUpd == {d \in UsuarioUpdate : d.password = None /\ (d.nombre = None \/ d.correo = None)}
SmallTimes == {0}

\* Requests handled concurrently by the threads of Req.
Next ==
  \/ \E r \in Req, data \in SmallIn : crear_usuario_check(r, data)
  \/ \E r \in Req, now \in SmallTimes, newid \in Ids : crear_usuario_commit(r, now, newid)
  \/ \E r \in Req : listar_usuarios(r)
  \/ \E r \in Req, id \in Ids : obtener_usuario(r, id)
  \/ \E r \in Req, id \in Ids, data \in SmallUpd : actualizar_usuario_get(r, id, data)
  \/ \E r \in Req : actualizar_usuario_check(r)
  \/ \E r \in Req : actualizar_usuario_commit(r)
  \/ \E r \in Req, id \in Ids : eliminar_usuario_get(r, id)
  \/ \E r \in Req, raises \in BOOLEAN : eliminar_usuario_commit(r, raises)

Spec == Init /\ [][Next]_vars

\* Requests handled one at a time, with every request body.
NextSeq ==
  \/ \E data \in UsuarioIn : crear_usuario_check("r1", data)
  \/ \E now \in Times, newid \in Ids : crear_usuario_commit("r1", now, newid)
  \/ listar_usuarios("r1")
  \/ \E id \in Ids : obtener_usuario("r1", id)
  \/ \E id \in Ids, data \in UsuarioUpdate : actualizar_usuario_get("r1", id, data)
  \/ actualizar_usuario_check("r1")
  \/ actualizar_usuario_commit("r1")
  \/ \E id \in Ids : eliminar_usuario_get("r1", id)
  \/ \E raises \in BOOLEAN : eliminar_usuario_commit("r1", raises)

SpecSeq == Init /\ [][NextSeq]_vars

\* ------------------------------------------------------------- properties
\* What a step shows of the handler that took it.
\* Thread r commits a request of kind op.
Commits(r, op) == req[r].op = op /\ req[r].pc = "commit" /\ req'[r] = Idle
\* Thread r runs the email query of its update.
Checks(r) == req[r].op = "actualizar" /\ req[r].pc = "check" /\ req'[r] # req[r]
\* Thread r passes its first round trip and goes on with a request of kind op.
Starts(r, op) == req[r].pc = "idle" /\ req'[r].op = op
\* A request of kind op is answered by its first round trip.
Answered(op) == req' = req /\ out'.op = op

NumRows(t) == Cardinality(DOMAIN t)

\* C1: in every reachable state, whatever the interleaving of the threads'
\* creates, updates and deletes, no two rows of the table have the same
\* correo.
C1_CorreoUnico ==
  \A i, j \in DOMAIN table : i # j => table[i].correo # table[j].correo

\* C1's case: two rows are stored and a commit that would have duplicated a
\* correo was just rejected.
C1_Witness ==
  /\ out.status = 500 /\ out.body = "IntegrityError"
  /\ NumRows(table) = 2

\* C2: a create whose correo a stored row holds when the handler looks it up
\* does not go on to its commit: it is answered 409 by that step, which
\* neither adds a row nor changes one.
C2_CrearDuplicado409 ==
  [][/\ \A r \in Req :
          Starts(r, "crear") => ByCorreo(table, req'[r].data.correo) = {}
     /\ (Answered("crear") /\ ByCorreo(table, out'.data.correo) # {})
        => out'.status = 409 /\ table' = table]_vars

\* C2's case: a create was just answered 409 and the row holding its correo
\* is stored.
C2_Witness ==
  /\ out.op = "crear" /\ out.status = 409
  /\ ByCorreo(table, out.data.correo) # {}

C4_ActualizarPresentes ==
  [][\A r \in Req :
       (Commits(r, "actualizar") /\ out'.status = 200)
       => /\ req[r].id \in DOMAIN table
          /\ table' = [table EXCEPT ![req[r].id] = Assign(@, req[r].data)]]_vars

\* C5: an update whose correo a different stored row holds is answered 409
\* and leaves the table as it was, also when its body carries a nombre and a
\* password: the nombre assigned before the lookup is not persisted.
C5_ActualizarConflicto409 ==
  [][\A r \in Req :
       (Checks(r) /\ ByCorreo(table, req[r].data.correo) \ {req[r].id} # {})
       => /\ out'.op = "actualizar" /\ out'.status = 409
          /\ req'[r] = Idle
          /\ table' = table]_vars

\* C5's case: an update carrying a new nombre, a password and another row's
\* correo was just answered 409.
C5_Witness ==
  /\ out.op = "actualizar" /\ out.status = 409
  /\ out.id \in DOMAIN table
  /\ out.data.nombre \notin {None, table[out.id].nombre}
  /\ out.data.password \notin {None, table[out.id].password}
  /\ ByCorreo(table, out.data.correo) \ {out.id} # {}

\* C6: a delete answered 204 removes the row of its id; as long as no create
\* is given that id again, a get of it is answered 404 and a delete of it is
\* answered 404 by its lookup, never going on to a commit, and leaves the
\* table unchanged.
C6_EliminadoLuego404 ==
  [][/\ (out'.op = "eliminar" /\ out'.status = 204)
        => out'.id \in gone' /\ out'.id \notin DOMAIN table'
     /\ (out'.op = "obtener" /\ out'.id \in gone) => out'.status = 404
     /\ \A r \in Req : ~(Starts(r, "eliminar") /\ req'[r].id \in gone)
     /\ (Answered("eliminar") /\ out'.id \in gone)
        => out'.status = 404 /\ table' = table]_vars

\* C6's case: a delete of an id deleted before was just answered 404.
C6_Witness ==
  /\ out.op = "eliminar" /\ out.status = 404
  /\ out.id \in gone

\* C7: a list is answered with one entry per stored row, each the row's
\* public projection, in strictly ascending id order, and does not change the
\* table; the number of rows, hence of entries, grows by one with each 201
\* create and changes with nothing else but a delete.
C7_ListarAscendente ==
  [][/\ out'.op = "listar"
        => LET b == out'.body
           IN /\ out'.status = 200
              /\ Len(b) = NumRows(table)
              /\ \A k \in 1..(Len(b) - 1) : b[k].id_usuario < b[k + 1].id_usuario
              /\ {b[k] : k \in 1..Len(b)} = {UsuarioOut(i, table[i]) : i \in DOMAIN table}
              /\ table' = table
     /\ out'.op # "eliminar"
        => NumRows(table') =
             NumRows(table) + (IF out'.op = "crear" /\ out'.status = 201 THEN 1 ELSE 0)]_vars

\* C7's case: a list was just answered with two entries.
C7_Witness ==
  /\ out.op = "listar" /\ Len(out.body) = 2
  /\ out.body[1].id_usuario < out.body[2].id_usuario

\* C8: an update is answered 409 exactly when, at its lookup, a row with a
\* different id holds its correo; one whose correo is the row's own passes
\* the lookup and its commit is answered 200; and an update of an id with no
\* row is answered 404 whatever its body, before any lookup of the correo.
C8_Actualizar409SoloOtro ==
  [][/\ (out'.op = "actualizar" /\ out'.status = 409) => \E r \in Req : Checks(r)
     /\ \A r \in Req :
          Checks(r) => ( out'.status = 409
                         <=> ByCorreo(table, req[r].data.correo) \ {req[r].id} # {} )
     /\ \A r \in Req :
          ( /\ req[r].op = "actualizar" /\ req[r].pc # "idle" /\ req'[r] # req[r]
            /\ req[r].id \in DOMAIN table
            /\ table[req[r].id].correo = req[r].data.correo )
          => IF req[r].pc = "check" THEN req'[r].pc = "commit" ELSE out'.status = 200
     /\ Answered("actualizar") => out'.status = 404 /\ out'.id \notin DOMAIN table
     /\ \A r \in Req : Starts(r, "actualizar") => req'[r].id \in DOMAIN table]_vars

\* C8's case: two rows are stored and an update carrying the correo of its
\* own row, which the other row does not hold, was just answered 200.
C8_Witness ==
  /\ out.op = "actualizar" /\ out.status = 200
  /\ NumRows(table) = 2
  /\ out.data.correo # None /\ out.data.nombre = None /\ out.data.password = None
  /\ table[out.id].correo = out.data.correo

\* C9: when two threads are both past the lookup of a create with the same
\* correo, the one that commits first, no row holding the correo, is answered
\* 201 and inserts one row; a create that commits while a row holds its
\* correo is rejected by the unique constraint: it is answered 500
\* (IntegrityError, not 409) and leaves the table as it was.
C9_CarreraCrear ==
  [][\A r \in Req :
       Commits(r, "crear")
       => LET e == req[r].data.correo
          IN IF ByCorreo(table, e) # {}
             THEN /\ out'.status = 500 /\ out'.body = "IntegrityError"
                  /\ table' = table
             ELSE /\ out'.status = 201
                  /\ Cardinality(ByCorreo(table', e)) = 1
                  /\ NumRows(table') = NumRows(table) + 1
                  /\ \A s \in Req \ {r} :
                       (req[s].op = "crear" /\ req[s].data.correo = e)
                       => req'[s] = req[s] /\ ByCorreo(table', req'[s].data.correo) # {}]_vars

\* C9's case: a create's commit was just rejected by the unique constraint,
\* and one row holds its correo.
C9_Witness ==
  /\ out.op = "crear" /\ out.status = 500 /\ out.body = "IntegrityError"
  /\ Cardinality(ByCorreo(table, out.data.correo)) = 1

\* C10: the sessions that are open are those of the requests in progress,
\* one each: a request that has ended, by a return, a 404, a 409 or a storage
\* error at its commit, has closed its session.
C10_SesionesCerradas ==
  nOpen = Cardinality({r \in Req : req[r].pc # "idle"})

\* C10's case: a request just ended with a storage error at its commit and
\* no session is open.
C10_Witness ==
  /\ out.status = 500
  /\ nOpen = 0

====
